---- MODULE Spec2Model ----
(***************************************************************************)
(* static-host (src/src/main.rs): a rule table mapping URL prefixes to     *)
(* either a served directory or a proxied origin.  The module models the   *)
(* loading of the configuration, the construction of the sorted rule       *)
(* table, the lookup Config::get, the route table registered by            *)
(* Config::update_app and the proxy handler.                               *)
(*                                                                         *)
(* Strings are sequences of one-character strings.  Option<T> is a         *)
(* sequence of length at most one: <<>> is None, <<v>> is Some(v).         *)
(***************************************************************************)
EXTENDS Naturals, Sequences, FiniteSets

VARIABLES
    arg,        \* CliArgs.config: Option<PathBuf>
    fs,         \* what the file system answers to exists / is_file / open
    content,    \* what the configuration file holds
    pc,         \* where main is
    config,     \* the Config main got (its items), once built
    appConfig,  \* AppState.config: the clone handed to the request handlers
    services,   \* the services update_app registered, in registration order
    clients,    \* the connections that send requests
    req,        \* per connection: the request in flight and the handler's locals
    map,        \* ConfigFile.map handed to Config::from_config_file
    prev,       \* the Config of the previous call of from_config_file
    input,      \* the argument of the latest call of Config::get
    found       \* the result of that call

vars == <<arg, fs, content, pc, config, appConfig, services, clients, req, map, prev, input, found>>

(***************************************************************************)
(* Bounds of the model.                                                    *)
(***************************************************************************)
MaxPrefixLen == 2
MaxPathLen == 3
MaxRules == 2

Alphabet == {"/", "a"}

\* A request path may also hold the escape %2F, one element of the sequence.
PathAlphabet == Alphabet \cup {"%2F"}

RECURSIVE Strs(_, _)
Strs(A, n) ==
    IF n = 0 THEN {<<>>}
    ELSE LET S == Strs(A, n - 1) IN S \cup {Append(s, c) : s \in S, c \in A}

\* URL prefixes (keys of the configuration) and request paths start with "/".
Prefixes == {s \in Strs(Alphabet, MaxPrefixLen) : Len(s) >= 1 /\ s[1] = "/"}
Paths == {s \in Strs(PathAlphabet, MaxPathLen) : Len(s) >= 1 /\ s[1] = "/"}
Queries == {<<>>, <<"q">>}

None == <<>>
Some(v) == <<v>>

(***************************************************************************)
(* ConfigItem (main.rs 31-42).                                             *)
(***************************************************************************)
Proxy(t) == [kind |-> "Proxy", proxy_to |-> t]
Directory(p, i, d) == [kind |-> "Directory", path |-> p, index |-> i, dir |-> d]

\* A prefix test that stops at path-segment boundaries.
starts_with_segment(s, p) ==
    /\ Len(p) <= Len(s)
    /\ SubSeq(s, 1, Len(p)) = p
    /\ (Len(s) = Len(p) \/ s[Len(p) + 1] = "/" \/ (Len(p) > 0 /\ p[Len(p)] = "/"))

\* str::starts_with, character by character.
starts_with(s, p) == Len(p) <= Len(s) /\ SubSeq(s, 1, Len(p)) = p

(***************************************************************************)
(* Config::from_config_file (main.rs 93-97).                               *)
(***************************************************************************)
\* HashMap::into_iter().collect(): the entries once each, in an order the
\* hasher decides (std's RandomState is seeded per map), so any order.
RECURSIVE Orderings(_)
Orderings(S) ==
    IF S = {} THEN {<<>>}
    ELSE UNION {{<<e>> \o o : o \in Orderings(S \ {e})} : e \in S}

Entries(m) == {<<k, m[k]>> : k \in DOMAIN m}

IntoIterCollect(m) == Orderings(Entries(m))

\* One step of the stable sort: e goes behind every element that does not
\* compare greater, i.e. behind every url at least as long.
InsertStable(sorted, e) ==
    LET k == Cardinality({i \in DOMAIN sorted : Len(sorted[i][1]) >= Len(e[1])})
    IN SubSeq(sorted, 1, k) \o <<e>> \o SubSeq(sorted, k + 1, Len(sorted))

\* The comparison the other way round: shortest url first.
InsertAscending(sorted, e) ==
    LET k == Cardinality({i \in DOMAIN sorted : Len(sorted[i][1]) <= Len(e[1])})
    IN SubSeq(sorted, 1, k) \o <<e>> \o SubSeq(sorted, k + 1, Len(sorted))

RECURSIVE SortByLenAsc(_)
SortByLenAsc(s) ==
    IF s = <<>> THEN <<>>
    ELSE InsertAscending(SortByLenAsc(SubSeq(s, 1, Len(s) - 1)), s[Len(s)])

\* The sort left out: the items stay in the map's iteration order.
Unsorted(s) == s

RECURSIVE SortByLenDesc(_)
SortByLenDesc(s) ==
    IF s = <<>> THEN <<>>
    ELSE InsertStable(SortByLenDesc(SubSeq(s, 1, Len(s) - 1)), s[Len(s)])

\* The Configs from_config_file may return for the map m.
from_config_file(m) == {SortByLenDesc(o) : o \in IntoIterCollect(m)}

(***************************************************************************)
(* Config::get (main.rs 121-129).                                          *)
(***************************************************************************)
RECURSIVE GetFrom(_, _, _)
GetFrom(items, in, i) ==
    IF i > Len(items) THEN None
    ELSE IF starts_with(in, items[i][1]) THEN Some(items[i])
    ELSE GetFrom(items, in, i + 1)

get(items, in) == GetFrom(items, in, 1)

(***************************************************************************)
(* Decoding a descriptor: #[serde(untagged)] enum ConfigItem (main.rs      *)
(* 31-42).  A JSON value is <<tag, text>>; a descriptor is a JSON object   *)
(* seen through the four keys the variants name (other keys are ignored by *)
(* both variants, as neither denies unknown fields).                       *)
(***************************************************************************)
JAbsent == <<"absent", <<>>>>
JNum == <<"num", <<>>>>
JFalse == <<"false", <<>>>>
JTrue == <<"true", <<>>>>
JStr(s) == <<"str", s>>

Obj(pt, pa, ix, di) == [proxy_to |-> pt, path |-> pa, index |-> ix, dir |-> di]

Ok(v) == <<"Ok", v>>
Err == <<"Err", <<>>>>
IsOk(r) == r[1] = "Ok"

\* Option<String> / Option<PathBuf>: a missing key is None, a string is Some.
DecodeOptStr(j) ==
    IF j[1] = "absent" THEN Ok(None)
    ELSE IF j[1] = "str" THEN Ok(Some(j[2]))
    ELSE Err

\* Option<bool>.
DecodeOptBool(j) ==
    IF j[1] = "absent" THEN Ok(None)
    ELSE IF j[1] = "true" THEN Ok(Some(TRUE))
    ELSE IF j[1] = "false" THEN Ok(Some(FALSE))
    ELSE Err

\* Variant Proxy { proxy_to: String }: the key must be there and be a string.
DecodeProxy(d) ==
    IF d.proxy_to[1] = "str" THEN Ok(Proxy(d.proxy_to[2])) ELSE Err

\* Variant Directory { path, index, dir }: every key optional, each typed.
DecodeDirectory(d) ==
    LET p == DecodeOptStr(d.path)
        i == DecodeOptStr(d.index)
        b == DecodeOptBool(d.dir)
    IN IF IsOk(p) /\ IsOk(i) /\ IsOk(b)
       THEN Ok(Directory(p[2], i[2], b[2]))
       ELSE Err

\* Directory tried before Proxy.
DecodeDirectoryFirst(d) ==
    IF IsOk(DecodeDirectory(d)) THEN DecodeDirectory(d) ELSE DecodeProxy(d)

\* Untagged: the first variant, in declaration order, that decodes.
DecodeItem(d) ==
    IF IsOk(DecodeProxy(d)) THEN DecodeProxy(d) ELSE DecodeDirectory(d)

\* serde_json::from_reader into ConfigFile { #[serde(flatten)] map }: the
\* text must be a JSON object and every value must decode.
from_reader(c) ==
    IF ~c.syntax THEN Err
    ELSE IF \E k \in DOMAIN c.entries : ~IsOk(DecodeItem(c.entries[k])) THEN Err
    ELSE Ok([k \in DOMAIN c.entries |-> DecodeItem(c.entries[k])[2]])

(***************************************************************************)
(* ConfigFile::from_directory (main.rs 56-67) and                          *)
(* ConfigFile::from_config_path (main.rs 68-87).                           *)
(***************************************************************************)
Slash == <<"/">>
DefaultPath == <<"static_host.json">>
Cwd == <<"cwd">>
ArgPath == <<"D">>

\* The map with the url itself as the directory served.
from_directory_no_path(path) == [k \in {Slash} |-> Directory(None, None, None)]

from_directory(path) == [k \in {Slash} |-> Directory(Some(path), None, None)]

\* The Some(path) arm: a regular file is opened and parsed, anything else
\* (a directory, a path that does not exist) is served as a directory.
FromSomePath(path, isFile, f, c) ==
    IF isFile
    THEN IF f.openOk THEN from_reader(c) ELSE Err
    ELSE Ok(from_directory(path))

\* Ok(map), Err, or <<"Panic", ..>> when current_dir() fails.
ConfigFile_from_config_path(a, f, c) ==
    IF a = None
    THEN IF f.defaultExists
         THEN FromSomePath(DefaultPath, f.defaultIsFile, f, c)
         ELSE IF f.cwdOk THEN Ok(from_directory(Cwd)) ELSE <<"Panic", <<>>>>
    ELSE FromSomePath(a[1], f.argIsFile, f, c)

(***************************************************************************)
(* Config::update_app (main.rs 98-120): one service per item, registered   *)
(* in the order of the items.                                              *)
(***************************************************************************)
IndexHtml == <<"index.html">>

ServiceOf(e) ==
    LET url == e[1]
        item == e[2]
    IN IF item.kind = "Directory"
       THEN [kind |-> "Files",
             mount |-> url,
             served |-> IF item.path = None THEN url ELSE item.path[1],
             index |-> IF item.index = None THEN IndexHtml ELSE item.index[1],
             listing |-> IF item.dir = None THEN TRUE ELSE item.dir[1]]
       ELSE [kind |-> "Resource", pattern |-> url]

update_app(items) == [i \in DOMAIN items |-> ServiceOf(items[i])]

(***************************************************************************)
(* The route table the services make (main.rs 106 and 115).                *)
(* actix_files::Files::new(url, ..) trims the slashes that end url and     *)
(* mounts a prefix resource, which matches a path it starts only up to a   *)
(* segment boundary; web::resource("{url}{suffix:.*}") matches every path  *)
(* that starts with url and captures the rest as suffix.  The first        *)
(* service registered that matches gets the request.                       *)
(***************************************************************************)
RECURSIVE TrimEndSlashes(_)
TrimEndSlashes(s) ==
    IF s # <<>> /\ s[Len(s)] = "/"
    THEN TrimEndSlashes(SubSeq(s, 1, Len(s) - 1))
    ELSE s

FilesMatches(mount, path) ==
    LET m == TrimEndSlashes(mount)
    IN /\ starts_with(path, m)
       /\ (Len(path) = Len(m) \/ path[Len(m) + 1] = "/")

ResourceMatches(pattern, path) == starts_with(path, pattern)

ServiceMatches(sv, path) ==
    IF sv.kind = "Files"
    THEN FilesMatches(sv.mount, path)
    ELSE ResourceMatches(sv.pattern, path)

\* The index of the service a path is routed to, 0 when none matches.
RECURSIVE RouteFrom(_, _, _)
RouteFrom(svs, path, i) ==
    IF i > Len(svs) THEN 0
    ELSE IF ServiceMatches(svs[i], path) THEN i
    ELSE RouteFrom(svs, path, i + 1)

RouteOf(svs, path) == RouteFrom(svs, path, 1)

\* What the pattern {suffix:.*} captures: the path behind the url.
SuffixOf(pattern, path) == SubSeq(path, Len(pattern) + 1, Len(path))

\* web::Path<(String,)> (main.rs 137, 142): the extractor hands the captured
\* segment over percent-decoded, escaped slashes included (req.path(), which
\* get is given, stays as sent).
PercentDecode(s) == [i \in DOMAIN s |-> IF s[i] = "%2F" THEN "/" ELSE s[i]]

(***************************************************************************)
(* The proxy handler (main.rs 136-160).                                    *)
(***************************************************************************)
\* main.rs 148-152
ProxyReal(prefix, suffix, query) ==
    IF Len(query) > 0
    THEN prefix \o suffix \o <<"?">> \o query
    ELSE prefix \o suffix

(***************************************************************************)
(* The rule tables of the model: at most MaxRules prefixes, each mapped    *)
(* to a decoded ConfigItem.                                                *)
(***************************************************************************)
T == <<"T">>
U == <<"U">>
Targets == {T}
LocalDir == <<"d">>

Items == {Proxy(t) : t \in Targets} \cup {Directory(None, None, None)}

MapsOver(I) ==
    UNION {[D -> I] : D \in {D \in SUBSET Prefixes : Cardinality(D) <= MaxRules}}

Maps == MapsOver(Items)

NoMap == <<>>
NoFs == [argIsFile |-> FALSE, defaultExists |-> FALSE, defaultIsFile |-> FALSE,
         openOk |-> TRUE, cwdOk |-> TRUE]
NoContent == [syntax |-> TRUE, entries |-> NoMap]
Idle == [pc |-> "idle"]
Reqs == {1, 2}

(***************************************************************************)
(* SpecLookup: from_config_file and get as functions of their inputs.      *)
(* The map is drawn at the start; FromConfigFile builds a Config from it   *)
(* (again and again), Get looks a path up in the latest one.               *)
(***************************************************************************)
InitLookup ==
    /\ map \in Maps
    /\ config = None
    /\ prev = None
    /\ input = None
    /\ found = None
    /\ arg = None
    /\ fs = NoFs
    /\ content = NoContent
    /\ pc = "lookup"
    /\ appConfig = None
    /\ services = <<>>
    /\ clients = {}
    /\ req = [r \in Reqs |-> Idle]

FromConfigFile ==
    /\ pc = "lookup"
    /\ \E c \in from_config_file(map) :
        /\ config' = Some(c)
        /\ prev' = config
    /\ input' = None
    /\ found' = None
    /\ UNCHANGED <<arg, fs, content, pc, appConfig, services, clients, req, map>>

Get ==
    /\ pc = "lookup"
    /\ config # None
    /\ \E in \in Paths :
        /\ input' = Some(in)
        /\ found' = get(config[1], in)
    /\ UNCHANGED <<arg, fs, content, pc, config, appConfig, services, clients, req, map, prev>>

NextLookup == FromConfigFile \/ Get

SpecLookup == InitLookup /\ [][NextLookup]_vars

(***************************************************************************)
(* Properties of the lookup.  IsStringPrefix states "p is a string-prefix  *)
(* of s" character by character, apart from the model of starts_with.      *)
(***************************************************************************)
IsStringPrefix(p, s) == Len(p) <= Len(s) /\ \A i \in 1..Len(p) : s[i] = p[i]

Matching(m, in) == {k \in DOMAIN m : IsStringPrefix(k, in)}

\* C1: whenever some rule's prefix is a string-prefix of the path looked up,
\* get returns the rule with the longest such prefix.
C1_LongestPrefixWins ==
    input # None =>
        LET M == Matching(map, input[1])
        IN M # {} =>
            \E k \in M :
                /\ \A j \in M : Len(j) <= Len(k)
                /\ found = Some(<<k, map[k]>>)

\* Two rules of different length match the path, and get chose the longer.
C1_Witness ==
    /\ input # None
    /\ \E j, k \in Matching(map, input[1]) :
        Len(j) < Len(k) /\ found = Some(<<k, map[k]>>)

\* C4: get returns no rule exactly when no prefix is a string-prefix of the
\* path, and a rule it returns has a prefix that is one, segment boundary or
\* not.
C4_NoMatchRawPrefix ==
    input # None =>
        /\ (found = None) <=> (Matching(map, input[1]) = {})
        /\ found # None => found[1][1] \in Matching(map, input[1])

\* get returned a rule whose prefix ends inside a path segment ("/a" for "/aa").
C4_Witness ==
    /\ input # None
    /\ found # None
    /\ LET u == found[1][1]
           p == input[1]
       IN /\ Len(p) > Len(u)
          /\ p[Len(u) + 1] # "/"
          /\ u[Len(u)] # "/"

\* get returned no rule for a path that no prefix starts.
C4_NoMatchReached == input # None /\ found = None /\ DOMAIN map # {}

\* C5: two calls of from_config_file on the same map return the rules in the
\* same order.
C5_BuildDeterministic == (prev # None /\ config # None) => prev = config

\* C10: at most one prefix of a given length starts a path, and get returns
\* the same rule from every Config the sort may produce from the map.
C10_TieBreakIndependent ==
    input # None =>
        /\ \A j, k \in Matching(map, input[1]) : Len(j) = Len(k) => j = k
        /\ \A c \in from_config_file(map) : get(c, input[1]) = found
        /\ prev # None => get(prev[1], input[1]) = found

\* Two builds that differ in the order of equal-length prefixes, and a lookup
\* that matched a rule.
C10_Witness ==
    /\ prev # None
    /\ config # None
    /\ prev # config
    /\ input # None
    /\ found # None

(***************************************************************************)
(* main (main.rs 162-191) and the requests the running server handles.     *)
(***************************************************************************)
\* A main that serves the working directory when the configuration fails.
LoadConfigFallback ==
    /\ pc = "start"
    /\ LET r == ConfigFile_from_config_path(arg, fs, content)
           m == IF IsOk(r) THEN r[2] ELSE from_directory(Cwd)
       IN \E c \in from_config_file(m) :
            /\ config' = Some(c)
            /\ map' = m
            /\ pc' = "built"
    /\ UNCHANGED <<arg, fs, content, appConfig, services, clients, req, prev, input, found>>

\* main.rs 167-175: Config::from_config_path(args.config) and the match on it.
LoadConfig ==
    /\ pc = "start"
    /\ LET r == ConfigFile_from_config_path(arg, fs, content)
       IN IF IsOk(r)
          THEN \E c \in from_config_file(r[2]) :
                /\ config' = Some(c)
                /\ map' = r[2]
                /\ pc' = "built"
          ELSE /\ pc' = IF r[1] = "Err" THEN "config_error" ELSE "panic"
               /\ UNCHANGED <<config, map>>
    /\ UNCHANGED <<arg, fs, content, appConfig, services, clients, req, prev, input, found>>

\* main.rs 177-188: the server is bound and run; each App gets a clone of the
\* Config and the services update_app registers.
BindOk ==
    /\ pc = "built"
    /\ pc' = "running"
    /\ appConfig' = config
    /\ services' = update_app(config[1])
    /\ UNCHANGED <<arg, fs, content, config, clients, req, map, prev, input, found>>

\* main.rs 186: bind fails and main returns the error.
BindFail ==
    /\ pc = "built"
    /\ pc' = "bind_error"
    /\ UNCHANGED <<arg, fs, content, config, appConfig, services, clients, req, map,
                   prev, input, found>>

\* A request arrives and the App routes it.
Route(r) ==
    /\ pc = "running"
    /\ r \in clients
    /\ req[r].pc = "idle"
    /\ \E p \in Paths, q \in Queries :
        LET i == RouteOf(services, p)
        IN req' = [req EXCEPT ![r] =
                IF i = 0 THEN [pc |-> "not_found", url |-> p]
                ELSE IF services[i].kind = "Files"
                THEN [pc |-> "files", url |-> p, service |-> i]
                ELSE [pc |-> "proxy", url |-> p, query |-> q, service |-> i,
                      suffix |-> PercentDecode(SuffixOf(services[i].pattern, p))]]
    /\ UNCHANGED <<arg, fs, content, pc, config, appConfig, services, clients, map,
                   prev, input, found>>

\* main.rs 144-147: the match on what get returned.
ProxyOutcome(q, m) ==
    IF m # None /\ m[1][2].kind = "Proxy"
    THEN [pc |-> "resolved", url |-> q.url, query |-> q.query, service |-> q.service,
          suffix |-> q.suffix, matched |-> m, prefix |-> m[1][2].proxy_to]
    ELSE [pc |-> "panicked", url |-> q.url, service |-> q.service, matched |-> m]

\* A lookup that takes the rule it returns out of the table.
ProxyGetTaking(r) ==
    /\ req[r].pc = "proxy"
    /\ LET m == get(appConfig[1], req[r].url)
       IN /\ req' = [req EXCEPT ![r] = ProxyOutcome(req[r], m)]
          /\ appConfig' = Some(SelectSeq(appConfig[1], LAMBDA e : m = None \/ e # m[1]))
    /\ UNCHANGED <<arg, fs, content, pc, config, services, clients, map, prev, input, found>>

\* main.rs 141-147: state.config.get(&url), a Proxy rule or the panic.
ProxyGet(r) ==
    /\ req[r].pc = "proxy"
    /\ req' = [req EXCEPT ![r] = ProxyOutcome(req[r], get(appConfig[1], req[r].url))]
    /\ UNCHANGED <<arg, fs, content, pc, config, appConfig, services, clients, map,
                   prev, input, found>>

\* main.rs 148-157: the target url is formatted and the request sent on.
ProxySend(r) ==
    /\ req[r].pc = "resolved"
    /\ req' = [req EXCEPT ![r] =
            [pc |-> "sent", url |-> req[r].url, query |-> req[r].query,
             service |-> req[r].service, matched |-> req[r].matched,
             real |-> ProxyReal(req[r].prefix, req[r].suffix, req[r].query)]]
    /\ UNCHANGED <<arg, fs, content, pc, config, appConfig, services, clients, map,
                   prev, input, found>>

\* The response is written (or the connection dropped) and the next request
\* of the connection may come.
Finish(r) ==
    /\ req[r].pc \in {"not_found", "files", "sent", "panicked"}
    /\ req' = [req EXCEPT ![r] = Idle]
    /\ UNCHANGED <<arg, fs, content, pc, config, appConfig, services, clients, map,
                   prev, input, found>>

Handle == \E r \in Reqs : Route(r) \/ ProxyGet(r) \/ ProxySend(r) \/ Finish(r)

(***************************************************************************)
(* The environments main starts in.                                        *)
(***************************************************************************)
Descriptors ==
    { Obj(JStr(T), JAbsent, JAbsent, JAbsent),       \* {"proxy_to": "T"}
      Obj(JStr(T), JStr(LocalDir), JAbsent, JAbsent), \* {"proxy_to": "T", "path": "d"}
      Obj(JAbsent, JAbsent, JAbsent, JAbsent),       \* {}
      Obj(JAbsent, JStr(LocalDir), JAbsent, JFalse), \* {"path": "d", "dir": false}
      Obj(JAbsent, JNum, JAbsent, JAbsent),          \* {"path": 5}
      Obj(JNum, JAbsent, JAbsent, JAbsent) }         \* {"proxy_to": 5}

Unparsable == [syntax |-> FALSE, entries |-> NoMap]

Contents ==
    {Unparsable} \cup {[syntax |-> TRUE, entries |-> m] : m \in MapsOver(Descriptors)}

FsStates ==
    [argIsFile : BOOLEAN, defaultExists : BOOLEAN, defaultIsFile : BOOLEAN,
     openOk : BOOLEAN, cwdOk : BOOLEAN]

\* main reads a configuration file.
ReadsFile(a, f) ==
    \/ a # None /\ f.argIsFile
    \/ a = None /\ f.defaultExists /\ f.defaultIsFile

\* What main never asks about has one value.
Relevant(a, f, c) ==
    /\ a = None => ~f.argIsFile
    /\ a # None => ~f.defaultExists
    /\ f.defaultIsFile => f.defaultExists
    /\ ~f.cwdOk => (a = None /\ ~f.defaultExists)
    /\ ~f.openOk => ReadsFile(a, f)
    /\ c # NoContent => (ReadsFile(a, f) /\ f.openOk)

InitMain(cs) ==
    /\ arg \in {None, Some(ArgPath)}
    /\ fs \in FsStates
    /\ content \in cs
    /\ Relevant(arg, fs, content)
    /\ pc = "start"
    /\ config = None
    /\ appConfig = None
    /\ services = <<>>
    /\ req = [r \in Reqs |-> Idle]
    /\ map = NoMap
    /\ prev = None
    /\ input = None
    /\ found = None

(***************************************************************************)
(* SpecStart: main up to the running server, over every configuration file *)
(* of the bounds.                                                          *)
(***************************************************************************)
InitStart == InitMain(Contents \cup {NoContent}) /\ clients = {}

NextStart == LoadConfig \/ BindOk \/ BindFail

SpecStart == InitStart /\ [][NextStart]_vars

(***************************************************************************)
(* Properties of the start.                                                *)
(***************************************************************************)
\* The configuration file was opened and held a JSON object.
FileParsed == ReadsFile(arg, fs) /\ fs.openOk /\ content.syntax

Built == pc \in {"built", "bind_error", "running"}

Rules == {config[1][i] : i \in DOMAIN config[1]}

BothKeys(d) == d.proxy_to # JAbsent /\ d.path # JAbsent

NeitherShape(d) ==
    d.proxy_to[1] # "str" /\ d.path = JAbsent /\ d.index = JAbsent /\ d.dir = JAbsent

\* No string proxy_to, and a Directory key with a value of the wrong type.
Undecodable(d) ==
    /\ d.proxy_to[1] # "str"
    /\ \/ d.path[1] \notin {"absent", "str"}
       \/ d.index[1] \notin {"absent", "str"}
       \/ d.dir[1] \notin {"absent", "true", "false"}

C3_AcceptedReached ==
    /\ FileParsed
    /\ pc = "running"
    /\ \E j, k \in DOMAIN content.entries :
        BothKeys(content.entries[j]) /\ NeitherShape(content.entries[k])

\* main serves a directory: the argument is no regular file, or there is no
\* argument and either no default file (the working directory is served) or
\* a default path that is no regular file (it is served as a directory).
DirectoryMode ==
    \/ arg # None /\ ~fs.argIsFile
    \/ arg = None /\ ~fs.defaultExists /\ fs.cwdOk
    \/ arg = None /\ fs.defaultExists /\ ~fs.defaultIsFile

ServedDirectory ==
    IF arg # None THEN arg[1]
    ELSE IF fs.defaultExists THEN DefaultPath
    ELSE Cwd

\* C6: from a bare directory path D, or from no argument and no default file
\* (D the working directory), the rule set is one Directory rule for "/" that
\* serves D with index.html and the listing on.
C6_DefaultDirectory ==
    DirectoryMode =>
        /\ pc \notin {"config_error", "panic"}
        /\ Built =>
            /\ Len(config[1]) = 1
            /\ config[1][1][1] = Slash
            /\ config[1][1][2].kind = "Directory"
        /\ pc = "running" =>
            services = <<[kind |-> "Files", mount |-> Slash, served |-> ServedDirectory,
                          index |-> IndexHtml, listing |-> TRUE]>>

\* The server runs on the working directory, no argument given.
C6_Witness ==
    /\ DirectoryMode
    /\ arg = None
    /\ ~fs.defaultExists
    /\ pc = "running"
    /\ Len(services) = 1

(***************************************************************************)
(* SpecServe: the running server over every rule table of the bounds, one  *)
(* connection.  The states it starts in are those LoadConfig and BindOk    *)
(* reach from a configuration file that holds the table.                   *)
(***************************************************************************)
Encode(item) ==
    IF item.kind = "Proxy"
    THEN Obj(JStr(item.proxy_to), JAbsent, JAbsent, JAbsent)
    ELSE Obj(JAbsent, JAbsent, JAbsent, JAbsent)

InitServe ==
    /\ map \in Maps
    /\ arg = Some(ArgPath)
    /\ fs = [NoFs EXCEPT !.argIsFile = TRUE]
    /\ content = [syntax |-> TRUE, entries |-> [k \in DOMAIN map |-> Encode(map[k])]]
    /\ pc = "running"
    /\ \E c \in from_config_file(map) :
        /\ config = Some(c)
        /\ appConfig = Some(c)
        /\ services = update_app(c)
    /\ clients = {1}
    /\ req = [r \in Reqs |-> Idle]
    /\ prev = None
    /\ input = None
    /\ found = None

NextServe == Handle

SpecServe == InitServe /\ [][NextServe]_vars

(***************************************************************************)
(* Spec: main from its start to the running server and the requests of two *)
(* connections, over a handful of configuration files.                     *)
(***************************************************************************)
ExampleContents ==
    { NoContent,
      Unparsable,
      [syntax |-> TRUE, entries |->
          [k \in {Slash, <<"/", "a">>} |->
              IF k = Slash THEN Obj(JAbsent, JAbsent, JAbsent, JAbsent)
              ELSE Obj(JStr(T), JAbsent, JAbsent, JAbsent)]],
      [syntax |-> TRUE, entries |->
          [k \in {Slash, <<"/", "a">>} |->
              IF k = Slash THEN Obj(JStr(T), JAbsent, JAbsent, JAbsent)
              ELSE Obj(JAbsent, JAbsent, JAbsent, JAbsent)]],
      [syntax |-> TRUE, entries |->
          [k \in {<<"/", "/">>, <<"/", "a">>} |->
              IF k = <<"/", "a">> THEN Obj(JStr(T), JAbsent, JAbsent, JAbsent)
              ELSE Obj(JStr(U), JAbsent, JAbsent, JAbsent)]],
      [syntax |-> TRUE, entries |->
          [k \in {Slash} |-> Obj(JAbsent, JNum, JAbsent, JAbsent)]] }

Init == InitMain(ExampleContents) /\ clients = Reqs

Next == LoadConfig \/ BindOk \/ BindFail \/ Handle

Spec == Init /\ [][Next]_vars

(***************************************************************************)
(* Properties of the requests.                                             *)
(***************************************************************************)
\* C2: the url a request is forwarded to is the matched Proxy rule's target,
\* then the path behind the rule's prefix, then "?" and the query when there
\* is a query, and nothing when there is none.
C2_ProxyUrl ==
    \A r \in Reqs :
        req[r].pc = "sent" =>
            LET p == req[r].matched[1][1]
                t == req[r].matched[1][2].proxy_to
                url == req[r].url
                q == req[r].query
            IN /\ <<p, Proxy(t)>> \in Entries(map)
               /\ req[r].real =
                    t \o SubSeq(url, Len(p) + 1, Len(url))
                      \o (IF q # <<>> THEN <<"?">> \o q ELSE <<>>)
               /\ q = <<>> => req[r].real[Len(req[r].real)] # "?"

\* C9: for a request the route table hands to the proxy handler, get resolves
\* a Proxy rule, and the handler never panics.
C9_NoKindMismatch ==
    \A r \in Reqs :
        req[r].pc \in {"resolved", "panicked", "sent"} =>
            /\ req[r].matched # None
            /\ req[r].matched[1][2].kind = "Proxy"
            /\ req[r].pc # "panicked"

\* C7: once the server runs, no step changes the rule set, and what the
\* handler of a request got from get is what get gives for the request's path
\* on the rule set main built, whatever the other connection does.
C7_ImmutableUnderConcurrency ==
    /\ [](pc = "running" => appConfig = config)
    /\ [](\A r \in Reqs :
            req[r].pc \in {"resolved", "panicked", "sent"}
                => req[r].matched = get(config[1], req[r].url))
    /\ [][pc = "running" => (config' = config /\ appConfig' = appConfig
                              /\ services' = services)]_vars

\* Both connections have a request past its lookup, for different paths.
C7_Witness ==
    /\ req[1].pc \in {"resolved", "sent"}
    /\ req[2].pc \in {"resolved", "sent"}
    /\ req[1].url # req[2].url

\* Loading the configuration fails: the file cannot be opened or parsed.
LoadFails ==
    /\ ReadsFile(arg, fs)
    /\ \/ ~fs.openOk
       \/ ~content.syntax
       \/ \E k \in DOMAIN content.entries : Undecodable(content.entries[k])

Serving ==
    \/ pc = "running"
    \/ appConfig # None
    \/ services # <<>>
    \/ \E r \in Reqs : req[r].pc # "idle"

\* C8: when loading the configuration fails main ends with the error, the
\* server is never bound and no request is served; requests are served only
\* with a Config built.
C8_ConfigErrorFatal ==
    /\ LoadFails => (pc \in {"start", "config_error"} /\ config = None /\ ~Serving)
    /\ Serving => (pc = "running" /\ config # None /\ ~LoadFails)

\* main ended with the error on a file it could not open.
C8_Witness == LoadFails /\ ~fs.openOk /\ pc = "config_error"

====
